---- MODULE Spec2Model ----
(***************************************************************************)
(* Cerberus Go client: the authentication strategies (TokenAuth, UserAuth, *)
(* STSAuth of the v3 packages, AWSAuth of the v1 package), the shared      *)
(* helpers Refresh / Logout / CheckAndParse, the process-wide HTTP client  *)
(* with its default-header round tripper, and the request executor         *)
(* Client.DoRequestWithBody.                                               *)
(*                                                                         *)
(* Time is in seconds.  An error value is a string: "nil", the two         *)
(* sentinels "ErrorUnauthenticated" / "ErrorUnauthorized" (compared by     *)
(* identity in Go, by equality here) and one name per fmt.Errorf site,     *)
(* each of which is a fresh value that equals no sentinel.                 *)
(***************************************************************************)
EXTENDS Integers, Sequences, FiniteSets, TLC

(***************************************************************************)
(* Bounds of the model                                                     *)
(***************************************************************************)
\* the clock advances at most this many times in a behaviour
MaxTicks == 1

\* seconds added to the clock by one advance; an HTTP exchange takes no
\* measurable time
TickLen == 60

MaxTime == MaxTicks * TickLen

\* lease durations (seconds) the service grants in a success body
Durations == {60, 120}

\* tokens the service issues in a success body; NewTokenAuth rejects ""
Tokens == {"t1", "t2"}

AllStrategies == {1, 2}
AllClients == {1, 2}

(***************************************************************************)
(* Program constants                                                       *)
(***************************************************************************)
expiryDelta == 60

ClientHeader == "CerberusGoClient/0.3.1"

ErrorUnauthenticated == "ErrorUnauthenticated"

ErrorUnauthorized == "ErrorUnauthorized"

ZeroTime == 0

(***************************************************************************)
(* http.Header: a map from the header names the program uses to a value;   *)
(* Absent marks a key that is not in the map.                              *)
(***************************************************************************)
Absent == "<absent>"

HeaderNames == {"Content-Type", "Accept", "X-Cerberus-Client",
                "X-Cerberus-Token", "X-Vault-Token"}

EmptyHeader == [k \in HeaderNames |-> Absent]

\* http.Header.Get: "" for a missing key
Get(h, k) == IF h[k] = Absent THEN "" ELSE h[k]

\* http.Header.Set
Set(h, k, v) == [x \in HeaderNames |-> IF x = k THEN v ELSE h[x]]

\* http.Header.Del
Del(h, k) == [x \in HeaderNames |-> IF x = k THEN Absent ELSE h[x]]

Kinds == {"token", "user", "sts", "aws"}

\* the header each strategy keeps its token in
TokenHeader(k) == IF k = "aws" THEN "X-Vault-Token" ELSE "X-Cerberus-Token"

(***************************************************************************)
(* What the network and the service answer to one HTTP exchange.           *)
(*   net    "err": no response (transport error); "ok": a response         *)
(*   body   "ok": a JSON body with client token and lease duration;        *)
(*          "mfa": a JSON body with Status mfa_req, a state token and a    *)
(*          device list; "bad": a body json.Decode rejects; "none";        *)
(*          "error": a JSON error envelope whose error_id is "e1";         *)
(*          "list": a JSON array of safe deposit boxes                     *)
(*   refresh  the response carries X-Refresh-Token: true                   *)
(*   stateToken, devices  Data.StateToken and the IDs of Data.Devices      *)
(*   boxes  the boxes of a "list" body, in the order the service lists     *)
(*          them                                                           *)
(***************************************************************************)
NetError == [net |-> "err", status |-> 0, body |-> "none", token |-> "",
             duration |-> 0, refresh |-> FALSE, stateToken |-> "", devices |-> <<>>,
   boxes |-> <<>>]

Status(code) == [net |-> "ok", status |-> code, body |-> "none", token |-> "",
                 duration |-> 0, refresh |-> FALSE, stateToken |-> "", devices |-> <<>>,
   boxes |-> <<>>]

Success(t, d) == [net |-> "ok", status |-> 200, body |-> "ok", token |-> t,
                  duration |-> d, refresh |-> FALSE, stateToken |-> "", devices |-> <<>>,
   boxes |-> <<>>]

Malformed == [Status(200) EXCEPT !.body = "bad"]

\* Status mfa_req: the body carries a state token and the user's devices
MfaRequired == [Status(200) EXCEPT !.body = "mfa", !.stateToken = "st1",
                                   !.devices = <<"dev1", "dev2">>]

\* answers to an authentication or refresh exchange
AuthResponses ==
    {NetError, Malformed} \cup {Status(c) : c \in {401, 403, 500}}
        \cup {Success(t, d) : t \in Tokens, d \in Durations}

\* answers to DELETE /v1/auth
LogoutResponses == {NetError} \cup {Status(c) : c \in {204, 200, 401}}

\* answers to a resource request of the client
RequestResponses ==
    {NetError} \cup {[Status(c) EXCEPT !.refresh = r] : c \in {200, 500}, r \in BOOLEAN}

\* the lists of boxes the service may answer with
BoxLists ==
    {<<>>,
     <<[Name |-> "b", ID |-> "4"]>>,
     <<[Name |-> "A", ID |-> "1"], [Name |-> "a", ID |-> "2"], [Name |-> "a", ID |-> "3"]>>}

ListAnswer(l) == [Status(200) EXCEPT !.body = "list", !.boxes = l]

\* answers to a request for a safe deposit box
SDBResponses ==
    {ListAnswer(l) : l \in BoxLists} \cup
    {NetError} \cup {[Status(c) EXCEPT !.body = b] :
                        c \in {200, 201, 204, 400, 404, 500},
                        b \in {"none", "ok", "error", "bad"}}

sdbBasePath == "/v2/safe-deposit-box"

\* what the server may answer on a path
ServerResponses(path) == IF path = sdbBasePath THEN SDBResponses ELSE RequestResponses

NilResponse == [net |-> "nil", status |-> 0, body |-> "none", token |-> "",
                duration |-> 0, refresh |-> FALSE, stateToken |-> "", devices |-> <<>>,
   boxes |-> <<>>]

(***************************************************************************)
(* State                                                                   *)
(***************************************************************************)
VARIABLES
    kind,        \* kind[s]: the concrete type of strategy s, "none" if not constructed
    token,       \* token[s]: the strategy's token field
    expiry,      \* expiry[s]: the strategy's expiry field (TokenAuth has none)
    headers,     \* headers[s]: the strategy's header map
    transport,   \* http.DefaultClient.Transport, shared by the whole process
    defaultHttpClient, \* utils.defaultHttpClient # nil
    client,      \* client[c]: the Client object, see NoClient
    now,         \* time.Now()
    retry,       \* the retrier of the DoRequestWithBody call in progress
    calls,       \* the concurrent DoRequest calls: where each goroutine stands
    last         \* the last call: its name, arguments, results and effects

vars == <<kind, token, expiry, headers, transport, defaultHttpClient, client, now, retry, calls,
         last>>

(***************************************************************************)
(* http.DefaultClient.Transport: nil ("none": http.DefaultTransport sends  *)
(* the request as it is), or a roundTripperWithDefaultHeaders whose Header *)
(* field is a map: strategy s's own header map ("strat": the same map, not *)
(* a copy) or a map given by a caller ("lit").                             *)
(***************************************************************************)
NoTransport == [kind |-> "none", s |-> 0, hdrs |-> EmptyHeader]

StrategyTransport(s) == [kind |-> "strat", s |-> s, hdrs |-> EmptyHeader]

LiteralTransport(h) == [kind |-> "lit", s |-> 0, hdrs |-> h]

\* the map h.Header of the round tripper, read when a request is sent
DefaultHeaders(tr, H) == IF tr.kind = "strat" THEN H[tr.s] ELSE tr.hdrs

AddClientHeader(h) ==
    IF Get(h, "X-Cerberus-Client") = ""
    THEN Set(h, "X-Cerberus-Client", ClientHeader)
    ELSE h

\* roundTripperWithDefaultHeaders.RoundTrip writes into the request's own
\* header map r; the result is that map afterwards
RoundTrip(tr, H, r) ==
    IF tr.kind = "none" THEN r
    ELSE LET D == DefaultHeaders(tr, H)
         IN AddClientHeader([k \in HeaderNames |-> IF D[k] # Absent THEN D[k] ELSE r[k]])

(***************************************************************************)
(* The part of the state the strategies' operations read and write, as a   *)
(* record, so that one operation can call another.  log lists, in order,   *)
(* the HTTP exchanges of the current call (endpoint, the header map sent,  *)
(* the answer) and the methods the request executor has invoked and what   *)
(* they returned.  An operation is the set of its possible results         *)
(* [w, err, ...], one per answer of the network.  received is the          *)
(* response the request executor got from its send, if any.                *)
(***************************************************************************)
World == [token |-> token, expiry |-> expiry, headers |-> headers,
          transport |-> transport, now |-> now, log |-> <<>>,
          received |-> NilResponse]

\* the JSON body of a request: the fields doMFA sends; other requests of the
\* strategies carry none
NoBody == [device_id |-> "", state_token |-> "", otp_token |-> <<>>]

Entry(ev, name, hdr, resp, err) ==
    [ev |-> ev, name |-> name, hdr |-> hdr, resp |-> resp, err |-> err, body |-> NoBody]

\* the call sends an HTTP request to endpoint ep with header map h and the
\* network answers resp
Sent(W, ep, h, resp) ==
    [W EXCEPT !.log = Append(W.log, Entry("send", ep, h, resp, "nil"))]

\* the same for a request with the JSON body b
SentBody(W, ep, h, b, resp) ==
    [W EXCEPT !.log = Append(W.log, [Entry("send", ep, h, resp, "nil") EXCEPT !.body = b])]

\* the call invokes a method of the strategy or of the Vault client
Called(W, name) ==
    [W EXCEPT !.log = Append(W.log, Entry("call", name, EmptyHeader, NilResponse, "nil"))]

\* the method returns err to the request executor
Returned(W, name, err) ==
    [W EXCEPT !.log = Append(W.log, Entry("return", name, EmptyHeader, NilResponse, err))]

\* utils.CheckAndParse: the error it returns for a response
CheckAndParse(resp) ==
    IF resp.status \in {401, 403} THEN ErrorUnauthorized
    ELSE IF resp.status # 200 THEN "ErrAuthStatus"
    ELSE IF resp.body = "bad" THEN "ErrParse"
    ELSE "nil"

\* auth.Refresh(builtURL, headers) of v3, called with strategy s's header map
Refresh(W, s) ==
    LET W1 == [W EXCEPT !.transport = StrategyTransport(s)]
        h1 == RoundTrip(W1.transport, W1.headers, W1.headers[s])
        W2 == [W1 EXCEPT !.headers[s] = h1]
    IN  {[w |-> Sent(W2, "refresh", h1, resp),
          err |-> IF resp.net = "err" THEN "ErrRequest" ELSE CheckAndParse(resp),
          r |-> resp] : resp \in AuthResponses}

\* auth.Logout(builtURL, headers) of v3, called with strategy s's header map
Logout(W, s) ==
    LET W1 == [W EXCEPT !.transport = StrategyTransport(s)]
        h1 == RoundTrip(W1.transport, W1.headers, W1.headers[s])
        W2 == [W1 EXCEPT !.headers[s] = h1]
    IN  {[w |-> Sent(W2, "logout", h1, resp),
          err |-> IF resp.net = "err" THEN "ErrRequest"
                  ELSE IF resp.status # 204 THEN "ErrLogoutStatus" ELSE "nil"]
         : resp \in LogoutResponses}

\* auth.Refresh of the v1 package: a plain &http.Client{}
RefreshV1(W, s) ==
    {[w |-> Sent(W, "refresh", W.headers[s], resp),
      err |-> IF resp.net = "err" THEN "ErrRequest" ELSE CheckAndParse(resp),
      r |-> resp] : resp \in AuthResponses}

\* auth.Logout of the v1 package: a plain &http.Client{}
LogoutV1(W, s) ==
    {[w |-> Sent(W, "logout", W.headers[s], resp),
      err |-> IF resp.net = "err" THEN "ErrRequest"
              ELSE IF resp.status # 204 THEN "ErrLogoutStatus" ELSE "nil"]
     : resp \in LogoutResponses}

\* the result of an operation that touches nothing
Return(W, err, val) == {[w |-> W, err |-> err, val |-> val]}

(***************************************************************************)
(* TokenAuth                                                               *)
(***************************************************************************)
\* TokenAuth.IsAuthenticated with the expiry test of the expiring strategies
TokenAuthIsAuthenticatedExpiring(W, s) == W.token[s] # "" /\ W.now < W.expiry[s]

TokenAuthIsAuthenticated(W, s) == W.token[s] # ""

TokenAuthGetToken(W, s, f) ==
    IF ~TokenAuthIsAuthenticated(W, s) THEN Return(W, ErrorUnauthenticated, "")
    ELSE Return(W, "nil", W.token[s])

TokenAuthRefresh(W, s) ==
    IF ~TokenAuthIsAuthenticated(W, s) THEN Return(W, ErrorUnauthenticated, "")
    ELSE {IF x.err # "nil" THEN [w |-> x.w, err |-> x.err, val |-> ""]
          ELSE [w |-> [x.w EXCEPT !.token[s] = x.r.token,
                                  !.headers[s] = Set(x.w.headers[s], "X-Cerberus-Token", x.r.token)],
                err |-> "nil", val |-> ""]
          : x \in Refresh(W, s)}

TokenAuthLogout(W, s) ==
    IF ~TokenAuthIsAuthenticated(W, s) THEN Return(W, ErrorUnauthenticated, "")
    ELSE {IF x.err # "nil" THEN [w |-> x.w, err |-> x.err, val |-> ""]
          ELSE [w |-> [x.w EXCEPT !.token[s] = "",
                                  !.headers[s] = Del(x.w.headers[s], "X-Cerberus-Token")],
                err |-> "nil", val |-> ""]
          : x \in Logout(W, s)}

TokenAuthGetHeaders(W, s) ==
    IF ~TokenAuthIsAuthenticated(W, s) THEN Return(W, ErrorUnauthenticated, EmptyHeader)
    ELSE Return(W, "nil", W.headers[s])

TokenAuthGetExpiry(W, s) == Return(W, "ErrExpiryNotSet", ZeroTime)

(***************************************************************************)
(* UserAuth                                                                *)
(***************************************************************************)
UserAuthIsAuthenticated(W, s) == Len(W.token[s]) > 0 /\ W.now < W.expiry[s]

\* UserAuth.setToken without the safety skew: the expiry of the lease itself
setTokenNoSkew(W, s, tok, duration) ==
    [W EXCEPT !.token[s] = tok,
              !.headers[s] = Set(W.headers[s], "X-Cerberus-Token", tok),
              !.expiry[s] = W.now + duration]

setToken(W, s, tok, duration) ==
    [W EXCEPT !.token[s] = tok,
              !.headers[s] = Set(W.headers[s], "X-Cerberus-Token", tok),
              !.expiry[s] = W.now + duration - expiryDelta]

(***************************************************************************)
(* The *os.File argument of GetToken: nil, or an open file.  A text is the *)
(* sequence of its characters.  FileText is what the file holds and        *)
(* StdinText what the user types at the prompt.                            *)
(***************************************************************************)
NilFile == "nil"

OtpFile == "file"

FileText == <<" ", "1", "7", "\t", "\n", "9", "\n">>

StdinText == <<"4", " ", "2", " ", "\n">>

Source(readFrom) == IF readFrom = NilFile THEN StdinText ELSE FileText

\* bufio.Reader.ReadString(delim): up to and including the first delim, or
\* everything when there is none (the error is dropped by doMFA)
ReadString(text, delim) ==
    LET at == {i \in 1..Len(text) : text[i] = delim}
    IN  IF at = {} THEN text
        ELSE SubSeq(text, 1, CHOOSE i \in at : \A j \in at : i <= j)

Whitespace == {" ", "\t", "\n", "\r"}

\* strings.TrimSpace
TrimSpace(text) ==
    LET keep == {i \in 1..Len(text) : text[i] \notin Whitespace}
    IN  IF keep = {} THEN <<>>
        ELSE SubSeq(text, CHOOSE i \in keep : \A j \in keep : i <= j,
                          CHOOSE i \in keep : \A j \in keep : j <= i)

\* doMFA sending the line as read, newline and blanks included
doMFAUntrimmed(W, s, stateToken, deviceID, readFrom) ==
    LET h == RoundTrip(W.transport, W.headers,
                       Set(EmptyHeader, "Content-Type", "application/json"))
        body == [device_id |-> deviceID, state_token |-> stateToken,
                 otp_token |-> ReadString(Source(readFrom), "\n")]
    IN  {LET W2 == SentBody(W, "mfa_check", h, body, resp)
             err == IF resp.net = "err" THEN "ErrRequest" ELSE CheckAndParse(resp)
         IN  IF err # "nil" THEN [w |-> W2, err |-> err]
             ELSE [w |-> setToken(W2, s, resp.token, resp.duration), err |-> "nil"]
         : resp \in AuthResponses}

\* the second challenge; http.Post sends through http.DefaultClient with a
\* header map of its own
doMFA(W, s, stateToken, deviceID, readFrom) ==
    LET h == RoundTrip(W.transport, W.headers,
                       Set(EmptyHeader, "Content-Type", "application/json"))
        body == [device_id |-> deviceID, state_token |-> stateToken,
                 otp_token |-> TrimSpace(ReadString(Source(readFrom), "\n"))]
    IN  {LET W2 == SentBody(W, "mfa_check", h, body, resp)
             err == IF resp.net = "err" THEN "ErrRequest" ELSE CheckAndParse(resp)
         IN  IF err # "nil" THEN [w |-> W2, err |-> err]
             ELSE [w |-> setToken(W2, s, resp.token, resp.duration), err |-> "nil"]
         : resp \in AuthResponses}

\* the first challenge goes through the strategy's own &http.Client{}
UserAuthAuthenticate(W, s, f) ==
    LET h == Set(EmptyHeader, "X-Cerberus-Client", ClientHeader)
    IN  UNION {LET W2 == Sent(W, "auth/user", h, resp)
                   err == IF resp.net = "err" THEN "ErrRequest" ELSE CheckAndParse(resp)
               IN  IF err # "nil" THEN {[w |-> W2, err |-> err]}
                   ELSE IF resp.body = "mfa"
                        THEN doMFA(W2, s, resp.stateToken, resp.devices[1], f)
                   ELSE {[w |-> setToken(W2, s, resp.token, resp.duration), err |-> "nil"]}
               : resp \in AuthResponses \cup {MfaRequired}}

UserAuthGetToken(W, s, f) ==
    IF UserAuthIsAuthenticated(W, s) THEN Return(W, "nil", W.token[s])
    ELSE {IF x.err # "nil" THEN [w |-> x.w, err |-> x.err, val |-> ""]
          ELSE [w |-> x.w, err |-> "nil", val |-> x.w.token[s]]
          : x \in UserAuthAuthenticate(W, s, f)}

UserAuthGetExpiry(W, s) ==
    IF Len(W.token[s]) > 0 THEN Return(W, "nil", W.expiry[s])
    ELSE Return(W, "ErrExpiryNotSet", ZeroTime)

UserAuthRefresh(W, s) ==
    IF ~UserAuthIsAuthenticated(W, s) THEN Return(W, ErrorUnauthenticated, "")
    ELSE {IF x.err # "nil" THEN [w |-> x.w, err |-> x.err, val |-> ""]
          ELSE [w |-> setToken(x.w, s, x.r.token, x.r.duration), err |-> "nil", val |-> ""]
          : x \in Refresh(W, s)}

UserAuthLogout(W, s) ==
    IF ~UserAuthIsAuthenticated(W, s) THEN Return(W, ErrorUnauthenticated, "")
    ELSE {IF x.err # "nil" THEN [w |-> x.w, err |-> x.err, val |-> ""]
          ELSE [w |-> [x.w EXCEPT !.token[s] = "",
                                  !.headers[s] = Del(x.w.headers[s], "X-Cerberus-Token")],
                err |-> "nil", val |-> ""]
          : x \in Logout(W, s)}

\* UserAuth.GetHeaders without its IsAuthenticated guard
UserAuthGetHeadersUnguarded(W, s) == Return(W, "nil", W.headers[s])

UserAuthGetHeaders(W, s) ==
    IF ~UserAuthIsAuthenticated(W, s) THEN Return(W, ErrorUnauthenticated, EmptyHeader)
    ELSE Return(W, "nil", W.headers[s])

(***************************************************************************)
(* STSAuth                                                                 *)
(***************************************************************************)
\* STSAuth.IsAuthenticated with !After in place of Before: valid at the expiry instant
STSAuthIsAuthenticatedInclusive(W, s) == Len(W.token[s]) > 0 /\ W.now <= W.expiry[s]

STSAuthIsAuthenticated(W, s) == Len(W.token[s]) > 0 /\ W.now < W.expiry[s]

\* sign() fails when no AWS credentials are found; the exchange goes through
\* a client of its own, http.Client{Timeout: 10s}
STSAuthAuthenticate(W, s) ==
    {[w |-> W, err |-> "ErrSign"]} \cup
        {LET W2 == Sent(W, "sts-identity", EmptyHeader, resp)
         IN  IF resp.net = "err" THEN [w |-> W2, err |-> "ErrRequest"]
             ELSE IF resp.status \in {401, 403} THEN [w |-> W2, err |-> "ErrInvalidCredentials"]
             ELSE IF resp.status # 200 THEN [w |-> W2, err |-> "ErrAuthStatus"]
             ELSE IF resp.body = "bad" THEN [w |-> W2, err |-> "ErrParse"]
             ELSE [w |-> [W2 EXCEPT !.token[s] = resp.token,
                                    !.headers[s] = Set(W2.headers[s], "X-Cerberus-Token", resp.token),
                                    !.expiry[s] = W2.now + resp.duration - expiryDelta],
                   err |-> "nil"]
         : resp \in AuthResponses}

\* STSAuth.GetToken without its IsAuthenticated short cut
STSAuthGetTokenAlways(W, s, f) ==
    {[w |-> x.w, err |-> x.err, val |-> x.w.token[s]] : x \in STSAuthAuthenticate(W, s)}

STSAuthGetToken(W, s, f) ==
    IF STSAuthIsAuthenticated(W, s) THEN Return(W, "nil", W.token[s])
    ELSE {[w |-> x.w, err |-> x.err, val |-> x.w.token[s]] : x \in STSAuthAuthenticate(W, s)}

STSAuthGetExpiry(W, s) ==
    IF Len(W.token[s]) > 0 THEN Return(W, "nil", W.expiry[s])
    ELSE Return(W, "ErrExpiryNotSet", ZeroTime)

\* STSAuth.Refresh through the shared refresh helper, as UserAuth.Refresh does
STSAuthRefreshViaEndpoint(W, s) ==
    IF ~STSAuthIsAuthenticated(W, s) THEN Return(W, ErrorUnauthenticated, "")
    ELSE {IF x.err # "nil" THEN [w |-> x.w, err |-> x.err, val |-> ""]
          ELSE [w |-> setToken(x.w, s, x.r.token, x.r.duration), err |-> "nil", val |-> ""]
          : x \in Refresh(W, s)}

STSAuthRefresh(W, s) ==
    IF ~STSAuthIsAuthenticated(W, s) THEN Return(W, ErrorUnauthenticated, "")
    ELSE {[w |-> x.w, err |-> x.err, val |-> ""] : x \in STSAuthAuthenticate(W, s)}

STSAuthLogout(W, s) ==
    IF ~STSAuthIsAuthenticated(W, s) THEN Return(W, ErrorUnauthenticated, "")
    ELSE {IF x.err # "nil" THEN [w |-> x.w, err |-> x.err, val |-> ""]
          ELSE [w |-> [x.w EXCEPT !.token[s] = "",
                                  !.headers[s] = Del(x.w.headers[s], "X-Cerberus-Token")],
                err |-> "nil", val |-> ""]
          : x \in Logout(W, s)}

STSAuthGetHeaders(W, s) ==
    IF ~STSAuthIsAuthenticated(W, s) THEN Return(W, ErrorUnauthenticated, EmptyHeader)
    ELSE Return(W, "nil", W.headers[s])

(***************************************************************************)
(* AWSAuth (v1 package)                                                    *)
(***************************************************************************)
AWSAuthIsAuthenticated(W, s) == Len(W.token[s]) > 0 /\ W.now < W.expiry[s]

\* http.Post sends through http.DefaultClient with a header map of its own
AWSAuthGetToken(W, s, f) ==
    IF AWSAuthIsAuthenticated(W, s) THEN Return(W, "nil", W.token[s])
    ELSE LET h == RoundTrip(W.transport, W.headers,
                            Set(EmptyHeader, "Content-Type", "application/json"))
         IN  {LET W2 == Sent(W, "iam-principal", h, resp)
              IN  IF resp.net = "err" THEN [w |-> W2, err |-> "ErrRequest", val |-> ""]
                  ELSE IF resp.status \in {401, 403}
                       THEN [w |-> W2, err |-> ErrorUnauthorized, val |-> ""]
                  ELSE IF resp.status # 200 THEN [w |-> W2, err |-> "ErrAuthStatus", val |-> ""]
                  ELSE IF resp.body = "bad" THEN [w |-> W2, err |-> "ErrParse", val |-> ""]
                  ELSE [w |-> [W2 EXCEPT !.token[s] = resp.token,
                                         !.headers[s] = Set(W2.headers[s], "X-Vault-Token", resp.token),
                                         !.expiry[s] = W2.now + resp.duration],
                        err |-> "nil", val |-> resp.token]
              : resp \in AuthResponses}

AWSAuthRefresh(W, s) ==
    IF ~AWSAuthIsAuthenticated(W, s) THEN Return(W, ErrorUnauthenticated, "")
    ELSE {IF x.err # "nil" THEN [w |-> x.w, err |-> x.err, val |-> ""]
          ELSE [w |-> [x.w EXCEPT !.token[s] = x.r.token,
                                  !.expiry[s] = x.w.now + x.r.duration,
                                  !.headers[s] = Set(x.w.headers[s], "X-Vault-Token", x.r.token)],
                err |-> "nil", val |-> ""]
          : x \in RefreshV1(W, s)}

AWSAuthLogout(W, s) ==
    IF ~AWSAuthIsAuthenticated(W, s) THEN Return(W, ErrorUnauthenticated, "")
    ELSE {IF x.err # "nil" THEN [w |-> x.w, err |-> x.err, val |-> ""]
          ELSE [w |-> [x.w EXCEPT !.token[s] = "",
                                  !.headers[s] = Del(x.w.headers[s], "X-Vault-Token")],
                err |-> "nil", val |-> ""]
          : x \in LogoutV1(W, s)}

AWSAuthGetHeaders(W, s) ==
    IF ~AWSAuthIsAuthenticated(W, s) THEN Return(W, ErrorUnauthenticated, EmptyHeader)
    ELSE Return(W, "nil", W.headers[s])

(***************************************************************************)
(* The Auth interface: a call on strategy s runs its concrete type's       *)
(* method.                                                                 *)
(***************************************************************************)
IsAuthenticated(W, s) ==
    CASE kind[s] = "token" -> TokenAuthIsAuthenticated(W, s)
      [] kind[s] = "user"  -> UserAuthIsAuthenticated(W, s)
      [] kind[s] = "sts"   -> STSAuthIsAuthenticated(W, s)
      [] kind[s] = "aws"   -> AWSAuthIsAuthenticated(W, s)

GetToken(W, s, f) ==
    CASE kind[s] = "token" -> TokenAuthGetToken(W, s, f)
      [] kind[s] = "user"  -> UserAuthGetToken(W, s, f)
      [] kind[s] = "sts"   -> STSAuthGetToken(W, s, f)
      [] kind[s] = "aws"   -> AWSAuthGetToken(W, s, f)

AuthRefresh(W, s) ==
    CASE kind[s] = "token" -> TokenAuthRefresh(W, s)
      [] kind[s] = "user"  -> UserAuthRefresh(W, s)
      [] kind[s] = "sts"   -> STSAuthRefresh(W, s)
      [] kind[s] = "aws"   -> AWSAuthRefresh(W, s)

AuthLogout(W, s) ==
    CASE kind[s] = "token" -> TokenAuthLogout(W, s)
      [] kind[s] = "user"  -> UserAuthLogout(W, s)
      [] kind[s] = "sts"   -> STSAuthLogout(W, s)
      [] kind[s] = "aws"   -> AWSAuthLogout(W, s)

GetHeaders(W, s) ==
    CASE kind[s] = "token" -> TokenAuthGetHeaders(W, s)
      [] kind[s] = "user"  -> UserAuthGetHeaders(W, s)
      [] kind[s] = "sts"   -> STSAuthGetHeaders(W, s)
      [] kind[s] = "aws"   -> AWSAuthGetHeaders(W, s)

\* the v1 Auth interface has no GetExpiry
GetExpiry(W, s) ==
    CASE kind[s] = "token" -> TokenAuthGetExpiry(W, s)
      [] kind[s] = "user"  -> UserAuthGetExpiry(W, s)
      [] kind[s] = "sts"   -> STSAuthGetExpiry(W, s)

(***************************************************************************)
(* Client                                                                  *)
(***************************************************************************)
\* a Client; given is the header map its constructor was handed, none for
\* NewClient
NoClient == [exists |-> FALSE, auth |-> 0, vaultToken |-> "", CerberusURL |-> "",
             given |-> EmptyHeader]

\* GetURL: the base URL strategy s was constructed with
GetURL(s) == IF s = 1 THEN "https://one.example.com" ELSE "https://two.example.com"

\* utils.DefaultHttpClient: the first call wraps http.DefaultClient's
\* transport, later calls return the same client untouched
DefaultHttpClient(tr, made) == IF made THEN tr ELSE LiteralTransport(EmptyHeader)

\* utils.NewHttpClient: always rewraps http.DefaultClient's transport
NewHttpClient(defaultHeaders) == LiteralTransport(defaultHeaders)

\* the refresh handling before v0.3.1: the Vault client keeps its old token
AfterResponseStaleVault(W, vtok, s, resp) ==
    IF resp.refresh
    THEN UNION {LET W1 == Returned(r.w, "Refresh", r.err)
                IN  IF r.err # "nil"
                    THEN {[w |-> W1, resp |-> resp, err |-> "ErrRefreshing", vault |-> vtok]}
                    ELSE {LET W2 == Returned(t.w, "GetToken", t.err)
                          IN  IF t.err # "nil"
                              THEN [w |-> W2, resp |-> NilResponse, err |-> t.err,
                                    vault |-> vtok]
                              ELSE [w |-> Called(W2, "SetToken"), resp |-> resp,
                                    err |-> "nil", vault |-> vtok]
                          : t \in GetToken(Called(W1, "GetToken"), s, NilFile)}
                : r \in AuthRefresh(Called(W, "Refresh"), s)}
    ELSE {[w |-> W, resp |-> resp, err |-> "nil", vault |-> vtok]}

\* the refresh handling returning nil, err when Refresh fails, as it does
\* when GetToken fails
AfterResponseDropsResponse(W, vtok, s, resp) ==
    IF resp.refresh
    THEN UNION {LET W1 == Returned(r.w, "Refresh", r.err)
                IN  IF r.err # "nil"
                    THEN {[w |-> W1, resp |-> NilResponse, err |-> "ErrRefreshing",
                           vault |-> vtok]}
                    ELSE {LET W2 == Returned(t.w, "GetToken", t.err)
                          IN  IF t.err # "nil"
                              THEN [w |-> W2, resp |-> NilResponse, err |-> t.err,
                                    vault |-> vtok]
                              ELSE [w |-> Called(W2, "SetToken"), resp |-> resp,
                                    err |-> "nil", vault |-> t.val]
                          : t \in GetToken(Called(W1, "GetToken"), s, NilFile)}
                : r \in AuthRefresh(Called(W, "Refresh"), s)}
    ELSE {[w |-> W, resp |-> resp, err |-> "nil", vault |-> vtok]}

\* the refresh handling run for every 200 answer, signal or not
AfterResponseEager(W, vtok, s, resp) ==
    IF resp.refresh \/ resp.status = 200
    THEN UNION {LET W1 == Returned(r.w, "Refresh", r.err)
                IN  IF r.err # "nil"
                    THEN {[w |-> W1, resp |-> resp, err |-> "ErrRefreshing", vault |-> vtok]}
                    ELSE {LET W2 == Returned(t.w, "GetToken", t.err)
                          IN  IF t.err # "nil"
                              THEN [w |-> W2, resp |-> NilResponse, err |-> t.err,
                                    vault |-> vtok]
                              ELSE [w |-> Called(W2, "SetToken"), resp |-> resp,
                                    err |-> "nil", vault |-> t.val]
                          : t \in GetToken(Called(W1, "GetToken"), s, NilFile)}
                : r \in AuthRefresh(Called(W, "Refresh"), s)}
    ELSE {[w |-> W, resp |-> resp, err |-> "nil", vault |-> vtok]}

\* what follows a response received without error in DoRequestWithBody
AfterResponse(W, vtok, s, resp) ==
    IF resp.refresh
    THEN UNION {LET W1 == Returned(r.w, "Refresh", r.err)
                IN  IF r.err # "nil"
                    THEN {[w |-> W1, resp |-> resp, err |-> "ErrRefreshing", vault |-> vtok]}
                    ELSE {LET W2 == Returned(t.w, "GetToken", t.err)
                          IN  IF t.err # "nil"
                              THEN [w |-> W2, resp |-> NilResponse, err |-> t.err,
                                    vault |-> vtok]
                              ELSE [w |-> Called(W2, "SetToken"), resp |-> resp,
                                    err |-> "nil", vault |-> t.val]
                          : t \in GetToken(Called(W1, "GetToken"), s, NilFile)}
                : r \in AuthRefresh(Called(W, "Refresh"), s)}
    ELSE {[w |-> W, resp |-> resp, err |-> "nil", vault |-> vtok]}

\* Client.DoRequestWithBody of a client over strategy s whose Vault client
\* holds vtok; validRequest: http.NewRequest accepts the method and URL.
\* httpbackoff returns the response with an error for a status outside 2xx.
DoRequestWithBody(W, vtok, s, path, contentType, validRequest) ==
    IF ~validRequest
    THEN {[w |-> W, resp |-> NilResponse, err |-> "ErrNewRequest", vault |-> vtok]}
    ELSE UNION {
        IF g.err # "nil"
        THEN {[w |-> Returned(g.w, "GetHeaders", g.err), resp |-> NilResponse,
               err |-> g.err, vault |-> vtok]}
        ELSE LET h0 == IF contentType # ""
                       THEN Set(g.w.headers[s], "Content-Type", contentType)
                       ELSE g.w.headers[s]
                 W0 == Returned(g.w, "GetHeaders", g.err)
                 W1 == [W0 EXCEPT !.headers[s] = h0]
                 h1 == RoundTrip(W1.transport, W1.headers, h0)
                 W2 == [W1 EXCEPT !.headers[s] = h1]
             IN  UNION {LET W3 == [Sent(W2, "request", h1, resp) EXCEPT !.received = resp]
                        IN  IF resp.net = "err"
                            THEN {[w |-> W3, resp |-> NilResponse, err |-> "ErrTransport",
                                   vault |-> vtok]}
                            ELSE IF resp.status \notin 200..299
                            THEN {[w |-> W3, resp |-> resp, err |-> "BadHttpResponseCode",
                                   vault |-> vtok]}
                            ELSE AfterResponse(W3, vtok, s, resp)
                        : resp \in ServerResponses(path)}
        : g \in GetHeaders(Called(W, "GetHeaders"), s)}

\* Client.DoRequest: data # nil is JSON-encoded into the body
DoRequest(W, vtok, s, path, hasData, encodable) ==
    IF hasData /\ ~encodable
    THEN {[w |-> W, resp |-> NilResponse, err |-> "ErrEncode", vault |-> vtok]}
    ELSE DoRequestWithBody(W, vtok, s, path,
                           IF hasData THEN "application/json" ELSE "", TRUE)

(***************************************************************************)
(* utils.ParseAPIError and the safe deposit box accessors.  An error is    *)
(* named by the variable or the type it is: the two ErrorBodyNotReturned   *)
(* variables, of package cerberus and of package utils, are different      *)
(* error values.                                                           *)
(***************************************************************************)
ErrorSafeDepositBoxNotFound == "ErrorSafeDepositBoxNotFound"

ErrorBodyNotReturned == "cerberus.ErrorBodyNotReturned"

utilsErrorBodyNotReturned == "utils.ErrorBodyNotReturned"

\* json.NewDecoder(r).Decode(&apiErr): the error, and the ErrorID decoded
DecodeErrorResponse(body) ==
    CASE body = "none"  -> [err |-> "io.EOF", ErrorID |-> ""]
      [] body = "bad"   -> [err |-> "ErrSyntax", ErrorID |-> ""]
      [] body = "list"  -> [err |-> "ErrUnmarshalType", ErrorID |-> ""]
      [] body = "error" -> [err |-> "nil", ErrorID |-> "e1"]
      [] OTHER          -> [err |-> "nil", ErrorID |-> ""]

\* the api.ErrorResponse with the given ErrorID, as an error
ErrorResponse(id) == IF id = "e1" THEN "api.ErrorResponse e1" ELSE "api.ErrorResponse"

\* ParseAPIError without the test for an empty ErrorID
ParseAPIErrorAnyID(body) ==
    LET d == DecodeErrorResponse(body)
    IN  IF d.err # "nil"
        THEN IF d.err = "io.EOF" THEN utilsErrorBodyNotReturned ELSE "ErrParseAPIError"
        ELSE ErrorResponse(d.ErrorID)

ParseAPIError(body) ==
    LET d == DecodeErrorResponse(body)
    IN  IF d.err # "nil"
        THEN IF d.err = "io.EOF" THEN utilsErrorBodyNotReturned ELSE "ErrParseAPIError"
        ELSE IF d.ErrorID = "" THEN utilsErrorBodyNotReturned
        ELSE ErrorResponse(d.ErrorID)

\* parseResponse into an api.SafeDepositBox
parseResponse(body) == IF body \in {"none", "bad", "list"} THEN "ErrDecode" ELSE "nil"

\* parseResponse into a []*api.SafeDepositBox
parseResponseList(body) == IF body = "list" THEN "nil" ELSE "ErrDecode"

NoBox == [Name |-> "", ID |-> ""]

\* SDB.List: the error and the boxes it returns
SDBList(W, vtok, s) ==
    {LET err == IF x.err # "nil" THEN "ErrWrapped"
                ELSE IF x.resp.status # 200 THEN "ErrWrapped"
                ELSE parseResponseList(x.resp.body)
     IN  [w |-> x.w, err |-> err, vault |-> x.vault,
          boxes |-> IF err = "nil" THEN x.resp.boxes ELSE <<>>]
     : x \in DoRequest(W, vtok, s, sdbBasePath, FALSE, TRUE)}

\* SDB.GetByName returning the last box of that name
SDBGetByNameLast(W, vtok, s, name) ==
    IF name = ""
    THEN {[w |-> W, err |-> ErrorSafeDepositBoxNotFound, vault |-> vtok, box |-> NoBox]}
    ELSE {IF l.err # "nil"
          THEN [w |-> l.w, err |-> l.err, vault |-> l.vault, box |-> NoBox]
          ELSE LET found == {i \in 1..Len(l.boxes) : l.boxes[i].Name = name}
               IN  IF found = {}
                   THEN [w |-> l.w, err |-> ErrorSafeDepositBoxNotFound, vault |-> l.vault,
                         box |-> NoBox]
                   ELSE [w |-> l.w, err |-> "nil", vault |-> l.vault,
                         box |-> l.boxes[CHOOSE i \in found : \A j \in found : j <= i]]
          : l \in SDBList(W, vtok, s)}

SDBGetByName(W, vtok, s, name) ==
    IF name = ""
    THEN {[w |-> W, err |-> ErrorSafeDepositBoxNotFound, vault |-> vtok, box |-> NoBox]}
    ELSE {IF l.err # "nil"
          THEN [w |-> l.w, err |-> l.err, vault |-> l.vault, box |-> NoBox]
          ELSE LET found == {i \in 1..Len(l.boxes) : l.boxes[i].Name = name}
               IN  IF found = {}
                   THEN [w |-> l.w, err |-> ErrorSafeDepositBoxNotFound, vault |-> l.vault,
                         box |-> NoBox]
                   ELSE [w |-> l.w, err |-> "nil", vault |-> l.vault,
                         box |-> l.boxes[CHOOSE i \in found : \A j \in found : i <= j]]
          : l \in SDBList(W, vtok, s)}

\* the result of an accessor after the request x
SDBResult(x, err) == [w |-> x.w, err |-> err, vault |-> x.vault]

\* apiErr, or the wrapped error when apiErr is this package's ErrorBodyNotReturned
WrapIfNoBody(apiErr) == IF apiErr = ErrorBodyNotReturned THEN "ErrWrapped" ELSE apiErr

\* SDB.Get without the test for an empty ID
SDBGetUnguarded(W, vtok, s, id) ==
    {SDBResult(x,
        IF x.err # "nil"
        THEN IF x.resp # NilResponse /\ x.resp.status = 404
             THEN ErrorSafeDepositBoxNotFound ELSE "ErrWrapped"
        ELSE IF x.resp.status # 200 THEN "ErrWrapped"
        ELSE parseResponse(x.resp.body))
     : x \in DoRequest(W, vtok, s, sdbBasePath, FALSE, TRUE)}

SDBGet(W, vtok, s, id) ==
    IF Len(id) = 0
    THEN {[w |-> W, err |-> ErrorSafeDepositBoxNotFound, vault |-> vtok]}
    ELSE {SDBResult(x,
            IF x.err # "nil"
            THEN IF x.resp # NilResponse /\ x.resp.status = 404
                 THEN ErrorSafeDepositBoxNotFound ELSE "ErrWrapped"
            ELSE IF x.resp.status # 200 THEN "ErrWrapped"
            ELSE parseResponse(x.resp.body))
          : x \in DoRequest(W, vtok, s, sdbBasePath, FALSE, TRUE)}

SDBCreate(W, vtok, s) ==
    {SDBResult(x,
        IF x.err # "nil"
        THEN IF x.resp # NilResponse /\ x.resp.status = 400
             THEN ParseAPIError(x.resp.body)
             ELSE "ErrWrapped"
        ELSE IF x.resp.status # 201 THEN WrapIfNoBody(ParseAPIError(x.resp.body))
        ELSE parseResponse(x.resp.body))
     : x \in DoRequest(W, vtok, s, sdbBasePath, TRUE, TRUE)}

SDBUpdate(W, vtok, s, id) ==
    IF TrimSpace(id) = <<>>
    THEN {[w |-> W, err |-> ErrorSafeDepositBoxNotFound, vault |-> vtok]}
    ELSE {SDBResult(x,
            IF x.err # "nil"
            THEN IF x.resp # NilResponse /\ x.resp.status = 404
                 THEN ErrorSafeDepositBoxNotFound
                 ELSE IF x.resp # NilResponse /\ x.resp.status = 400
                 THEN ParseAPIError(x.resp.body)
                 ELSE "ErrWrapped"
            ELSE IF x.resp.status # 200 THEN WrapIfNoBody(ParseAPIError(x.resp.body))
            ELSE parseResponse(x.resp.body))
          : x \in DoRequest(W, vtok, s, sdbBasePath, TRUE, TRUE)}

SDBDelete(W, vtok, s, id) ==
    IF TrimSpace(id) = <<>>
    THEN {[w |-> W, err |-> ErrorSafeDepositBoxNotFound, vault |-> vtok]}
    ELSE {SDBResult(x,
            IF x.err # "nil"
            THEN IF x.resp # NilResponse
                 THEN IF x.resp.status = 404 THEN ErrorSafeDepositBoxNotFound
                      ELSE WrapIfNoBody(ParseAPIError(x.resp.body))
                 ELSE "ErrWrapped"
            ELSE IF x.resp.status # 204 THEN WrapIfNoBody(ParseAPIError(x.resp.body))
            ELSE "nil")
          : x \in DoRequest(W, vtok, s, sdbBasePath, FALSE, TRUE)}

(***************************************************************************)
(* Actions: one per exported operation, plus the passing of time.  Each    *)
(* records its name, arguments and results in last.                        *)
(***************************************************************************)
Record(op, s, c, arg, err, val, resp, W) ==
    [op |-> op, s |-> s, c |-> c, arg |-> arg, err |-> err, val |-> val, resp |-> resp,
     received |-> W.received, log |-> W.log]

Apply(W) ==
    /\ token' = W.token
    /\ expiry' = W.expiry
    /\ headers' = W.headers
    /\ transport' = W.transport
    /\ now' = W.now

Constructed == {s \in AllStrategies : kind[s] # "none"}

\* the strategies a v3 Client can be built over
ClientStrategies == {s \in AllStrategies : kind[s] \in {"token", "user", "sts"}}

Tick ==
    /\ now + TickLen <= MaxTime
    /\ now' = now + TickLen
    /\ last' = Record("Tick", 0, 0, "", "nil", "", NilResponse, World)
    /\ UNCHANGED <<retry, calls, kind, token, expiry, headers, transport, defaultHttpClient, client>>

CallIsAuthenticated(s) ==
    /\ last' = Record("IsAuthenticated", s, 0, "", "nil", IsAuthenticated(World, s),
                      NilResponse, World)
    /\ UNCHANGED <<retry, calls, kind, token, expiry, headers, transport, defaultHttpClient, client, now>>

\* the files a caller passes: only UserAuth reads its argument
Files(s) == IF kind[s] = "user" THEN {NilFile, OtpFile} ELSE {NilFile}

CallGetToken(s) ==
    \E f \in Files(s) : \E x \in GetToken(World, s, f) :
        /\ Apply(x.w)
        /\ last' = Record("GetToken", s, 0, f, x.err, x.val, NilResponse, x.w)
        /\ UNCHANGED <<retry, calls, kind, defaultHttpClient, client>>

CallRefresh(s) ==
    \E x \in AuthRefresh(World, s) :
        /\ Apply(x.w)
        /\ last' = Record("Refresh", s, 0, "", x.err, "", NilResponse, x.w)
        /\ UNCHANGED <<retry, calls, kind, defaultHttpClient, client>>

CallLogout(s) ==
    \E x \in AuthLogout(World, s) :
        /\ Apply(x.w)
        /\ last' = Record("Logout", s, 0, "", x.err, "", NilResponse, x.w)
        /\ UNCHANGED <<retry, calls, kind, defaultHttpClient, client>>

CallGetHeaders(s) ==
    \E x \in GetHeaders(World, s) :
        /\ Apply(x.w)
        /\ last' = Record("GetHeaders", s, 0, "", x.err, x.val, NilResponse, x.w)
        /\ UNCHANGED <<retry, calls, kind, defaultHttpClient, client>>

CallGetExpiry(s) ==
    /\ kind[s] # "aws"
    /\ \E x \in GetExpiry(World, s) :
        /\ Apply(x.w)
        /\ last' = Record("GetExpiry", s, 0, "", x.err, x.val, NilResponse, x.w)
        /\ UNCHANGED <<retry, calls, kind, defaultHttpClient, client>>

\* vault.NewClient, reached only after a successful GetToken, succeeds or fails
VaultOutcomes(loginErr) == IF loginErr = "nil" THEN BOOLEAN ELSE {TRUE}

\* NewClient leaving the Vault client without the token
NewClientNoSetToken(c, s) ==
    /\ ~client[c].exists
    /\ \E otpFile \in Files(s) : \E x \in GetToken(World, s, otpFile) :
       \E vaultOK \in VaultOutcomes(x.err) :
        /\ Apply([x.w EXCEPT !.transport =
                     IF x.err = "nil" /\ vaultOK
                     THEN DefaultHttpClient(x.w.transport, defaultHttpClient) ELSE x.w.transport])
        /\ defaultHttpClient' = (defaultHttpClient \/ (x.err = "nil" /\ vaultOK))
        /\ client' = IF x.err = "nil" /\ vaultOK
                     THEN [client EXCEPT ![c] = [exists |-> TRUE, auth |-> s,
                                                 vaultToken |-> "",
                                                 CerberusURL |-> GetURL(s),
                                                 given |-> EmptyHeader]]
                     ELSE client
        /\ last' = Record("NewClient", s, c, otpFile,
                          IF x.err # "nil" THEN x.err
                          ELSE IF ~vaultOK THEN "ErrVaultClient" ELSE "nil",
                          x.val, NilResponse, x.w)
        /\ UNCHANGED <<retry, calls, kind>>

\* cerberus.NewClient(authMethod, otpFile); vaultOK: vault.NewClient succeeds
NewClient(c, s) ==
    /\ ~client[c].exists
    /\ \E otpFile \in Files(s) : \E x \in GetToken(World, s, otpFile) :
       \E vaultOK \in VaultOutcomes(x.err) :
        /\ Apply([x.w EXCEPT !.transport =
                     IF x.err = "nil" /\ vaultOK
                     THEN DefaultHttpClient(x.w.transport, defaultHttpClient) ELSE x.w.transport])
        /\ defaultHttpClient' = (defaultHttpClient \/ (x.err = "nil" /\ vaultOK))
        /\ client' = IF x.err = "nil" /\ vaultOK
                     THEN [client EXCEPT ![c] = [exists |-> TRUE, auth |-> s,
                                                 vaultToken |-> x.val,
                                                 CerberusURL |-> GetURL(s),
                                                 given |-> EmptyHeader]]
                     ELSE client
        /\ last' = Record("NewClient", s, c, otpFile,
                          IF x.err # "nil" THEN x.err
                          ELSE IF ~vaultOK THEN "ErrVaultClient" ELSE "nil",
                          x.val, NilResponse, x.w)
        /\ UNCHANGED <<retry, calls, kind>>

\* default header maps a caller passes to NewClientWithHeaders
CallerHeaders == {Set(EmptyHeader, "X-Cerberus-Client", "custom")}

NewClientWithHeaders(c, s, defaultHeaders) ==
    /\ ~client[c].exists
    /\ \E otpFile \in Files(s) : \E x \in GetToken(World, s, otpFile) :
       \E vaultOK \in VaultOutcomes(x.err) :
        /\ Apply([x.w EXCEPT !.transport =
                     IF x.err = "nil" /\ vaultOK THEN NewHttpClient(defaultHeaders) ELSE x.w.transport])
        /\ client' = IF x.err = "nil" /\ vaultOK
                     THEN [client EXCEPT ![c] = [exists |-> TRUE, auth |-> s,
                                                 vaultToken |-> x.val,
                                                 CerberusURL |-> GetURL(s),
                                                 given |-> defaultHeaders]]
                     ELSE client
        /\ last' = Record("NewClientWithHeaders", s, c, otpFile,
                          IF x.err # "nil" THEN x.err
                          ELSE IF ~vaultOK THEN "ErrVaultClient" ELSE "nil",
                          x.val, NilResponse, x.w)
        /\ UNCHANGED <<retry, calls, kind, defaultHttpClient>>

\* the content type a caller passes for a file upload (DoRequest passes none or JSON)
ContentTypes == {"multipart/form-data"}

\* DoRequestWithBody setting the path on the client's own URL, not on a copy
CallDoRequestWithBodySharedURL(c) ==
    /\ client[c].exists
    /\ \E contentType \in ContentTypes, validRequest \in BOOLEAN :
        \E x \in DoRequestWithBody(World, client[c].vaultToken, client[c].auth,
                                   "/v1/secure-file", contentType, validRequest) :
            /\ Apply(x.w)
            /\ client' = [client EXCEPT ![c].vaultToken = x.vault,
                                       ![c].CerberusURL = "/v1/secure-file"]
            /\ last' = Record("DoRequestWithBody", client[c].auth, c, contentType,
                              x.err, "", x.resp, x.w)
            /\ UNCHANGED <<retry, calls, kind, defaultHttpClient>>

CallDoRequestWithBody(c) ==
    /\ client[c].exists
    /\ \E contentType \in ContentTypes, validRequest \in BOOLEAN :
        \E x \in DoRequestWithBody(World, client[c].vaultToken, client[c].auth,
                                   "/v1/secure-file", contentType, validRequest) :
            /\ Apply(x.w)
            /\ client' = [client EXCEPT ![c].vaultToken = x.vault]
            /\ last' = Record("DoRequestWithBody", client[c].auth, c, contentType,
                              x.err, "", x.resp, x.w)
            /\ UNCHANGED <<retry, calls, kind, defaultHttpClient>>

CallDoRequest(c) ==
    /\ client[c].exists
    /\ \E hasData \in BOOLEAN : \E encodable \in (IF hasData THEN BOOLEAN ELSE {TRUE}) :
        \E x \in DoRequest(World, client[c].vaultToken, client[c].auth,
                           "/v2/role", hasData, encodable) :
            /\ Apply(x.w)
            /\ client' = [client EXCEPT ![c].vaultToken = x.vault]
            /\ last' = Record("DoRequest", client[c].auth, c,
                              IF hasData THEN "application/json" ELSE "",
                              x.err, "", x.resp, x.w)
            /\ UNCHANGED <<retry, calls, kind, defaultHttpClient>>

\* the IDs a caller passes: none, blank, and a box's ID
IDs == {<<>>, <<" ">>, <<"b", "1">>}

CallSDBGet(c) ==
    /\ client[c].exists
    /\ \E id \in IDs : \E x \in SDBGet(World, client[c].vaultToken, client[c].auth, id) :
        /\ Apply(x.w)
        /\ client' = [client EXCEPT ![c].vaultToken = x.vault]
        /\ last' = Record("SDB.Get", client[c].auth, c, id, x.err, "", NilResponse, x.w)
        /\ UNCHANGED <<retry, calls, kind, defaultHttpClient>>

\* the names a caller looks up
Names == {"", "a", "zz"}

CallSDBGetByName(c) ==
    /\ client[c].exists
    /\ \E name \in Names :
       \E x \in SDBGetByName(World, client[c].vaultToken, client[c].auth, name) :
        /\ Apply(x.w)
        /\ client' = [client EXCEPT ![c].vaultToken = x.vault]
        /\ last' = Record("SDB.GetByName", client[c].auth, c, name, x.err, x.box.ID,
                          NilResponse, x.w)
        /\ UNCHANGED <<retry, calls, kind, defaultHttpClient>>

CallSDBCreate(c) ==
    /\ client[c].exists
    /\ \E x \in SDBCreate(World, client[c].vaultToken, client[c].auth) :
        /\ Apply(x.w)
        /\ client' = [client EXCEPT ![c].vaultToken = x.vault]
        /\ last' = Record("SDB.Create", client[c].auth, c, <<>>, x.err, "", NilResponse, x.w)
        /\ UNCHANGED <<retry, calls, kind, defaultHttpClient>>

CallSDBUpdate(c) ==
    /\ client[c].exists
    /\ \E id \in IDs : \E x \in SDBUpdate(World, client[c].vaultToken, client[c].auth, id) :
        /\ Apply(x.w)
        /\ client' = [client EXCEPT ![c].vaultToken = x.vault]
        /\ last' = Record("SDB.Update", client[c].auth, c, id, x.err, "", NilResponse, x.w)
        /\ UNCHANGED <<retry, calls, kind, defaultHttpClient>>

CallSDBDelete(c) ==
    /\ client[c].exists
    /\ \E id \in IDs : \E x \in SDBDelete(World, client[c].vaultToken, client[c].auth, id) :
        /\ Apply(x.w)
        /\ client' = [client EXCEPT ![c].vaultToken = x.vault]
        /\ last' = Record("SDB.Delete", client[c].auth, c, id, x.err, "", NilResponse, x.w)
        /\ UNCHANGED <<retry, calls, kind, defaultHttpClient>>

(***************************************************************************)
(* Construction.  NewTokenAuth, NewUserAuth, NewSTSAuth and NewAWSAuth     *)
(* reject empty arguments, so a constructed TokenAuth holds a token.       *)
(***************************************************************************)
NewHeaders(k, tok) ==
    CASE k = "token" -> Set(Set(Set(EmptyHeader, "Content-Type", "application/json"),
                                "Accept", "application/json"), "X-Cerberus-Token", tok)
      [] k = "user"  -> Set(Set(EmptyHeader, "Content-Type", "application/json"),
                            "X-Cerberus-Client", ClientHeader)
      [] k = "sts"   -> Set(EmptyHeader, "Content-Type", "application/json")
      [] OTHER       -> EmptyHeader

(***************************************************************************)
(* The retrier of DoRequestWithBody.  The settings are those of the call;  *)
(* the loop is that of httpbackoff.Client.Retry over backoff.RetryNotify   *)
(* with an ExponentialBackOff: Reset, then send, and after a failed send   *)
(* NextBackOff, which stops once more than MaxElapsedTime has elapsed      *)
(* since Reset and otherwise yields the current interval and scales it.    *)
(* Times are in milliseconds.                                              *)
(***************************************************************************)
\* settings whose first wait is twice as long
BackOffSettingsSlowStart == [InitialInterval |-> 200, Multiplier |-> 2,
                             MaxInterval |-> 600, MaxElapsedTime |-> 600]

BackOffSettings == [InitialInterval |-> 100, Multiplier |-> 2,
                    MaxInterval |-> 600, MaxElapsedTime |-> 600]

\* how long one send takes before it returns
SendDurations == {0, 150, 700}

\* answers the retrier tells apart: no answer, 5xx, another non-2xx, 2xx
RetryResponses == {NetError} \cup {Status(c) : c \in {500, 404, 200}}

NoRetry == [pc |-> "idle", c |-> 0, attempts |-> 0, elapsed |-> 0, currentInterval |-> 0,
            waits |-> <<>>, seen |-> <<>>, resp |-> NilResponse, err |-> "nil"]

\* ExponentialBackOff.incrementCurrentInterval
incrementCurrentInterval(b, currentInterval) ==
    IF currentInterval * b.Multiplier >= b.MaxInterval THEN b.MaxInterval
    ELSE currentInterval * b.Multiplier

\* retryClient.ClientDo(c.httpClient, req) begins: RetryNotify resets the backoff
ClientDo(c) ==
    /\ retry.pc \in {"idle", "done"}
    /\ client[c].exists
    /\ \E g \in GetHeaders(World, client[c].auth) : g.err = "nil"
    /\ retry' = [NoRetry EXCEPT !.pc = "send", !.c = c,
                                !.currentInterval = BackOffSettings.InitialInterval]
    /\ UNCHANGED <<kind, token, expiry, headers, transport, defaultHttpClient, client,
                   now, calls, last>>

\* one c.Do(req): an error or a 5xx answer is temporary, any other non-2xx
\* answer is permanent; after a temporary failure NextBackOff decides
Attempt ==
    /\ retry.pc = "send"
    /\ \E d \in SendDurations, resp \in RetryResponses :
        LET elapsed   == retry.elapsed + d
            temporary == resp.net = "err" \/ resp.status \div 100 = 5
            err       == IF resp.net = "err" THEN "ErrTransport"
                         ELSE IF resp.status \div 100 # 2 THEN "BadHttpResponseCode"
                         ELSE "nil"
            stop      == elapsed > BackOffSettings.MaxElapsedTime
        IN  retry' = [retry EXCEPT !.attempts = retry.attempts + 1,
                                   !.elapsed = elapsed,
                                   !.seen = Append(retry.seen, resp),
                                   !.resp = IF resp.net = "err" THEN NilResponse ELSE resp,
                                   !.err = err,
                                   !.pc = IF temporary /\ ~stop THEN "wait" ELSE "done"]
    /\ UNCHANGED <<kind, token, expiry, headers, transport, defaultHttpClient, client,
                   now, calls, last>>

\* the sleep between two sends
Wait ==
    /\ retry.pc = "wait"
    /\ retry' = [retry EXCEPT !.elapsed = retry.elapsed + retry.currentInterval,
                              !.waits = Append(retry.waits, retry.currentInterval),
                              !.currentInterval =
                                  incrementCurrentInterval(BackOffSettings,
                                                           retry.currentInterval),
                              !.pc = "send"]
    /\ UNCHANGED <<kind, token, expiry, headers, transport, defaultHttpClient, client,
                   now, calls, last>>

(***************************************************************************)
(* Two goroutines call DoRequest on one client at the same time.  Nothing  *)
(* in Client or in the strategies is synchronized, so the calls interleave *)
(* at least at every method call of DoRequestWithBody: the exchange up to  *)
(* the response, Authentication.Refresh, Authentication.GetToken and       *)
(* vaultClient.SetToken.  pc is the step a goroutine takes next, signal    *)
(* whether its response carried the refresh signal, tok the token its      *)
(* GetToken returned and err what the call returned.                       *)
(***************************************************************************)
Goroutines == {1, 2}

NoCall == [pc |-> "idle", signal |-> FALSE, tok |-> "", err |-> "nil"]

ReturnCall(g, err) == [calls EXCEPT ![g].pc = "returned", ![g].err = err]

\* up to the return of retryClient.ClientDo
GoDoRequest(g, c) ==
    /\ calls[g].pc = "idle"
    /\ client[c].exists
    /\ LET s == client[c].auth
       IN \E h \in GetHeaders(World, s) :
            IF h.err # "nil"
            THEN /\ calls' = ReturnCall(g, h.err)
                 /\ UNCHANGED headers
            ELSE /\ headers' = [headers EXCEPT ![s] = RoundTrip(transport, headers, headers[s])]
                 /\ \E resp \in ServerResponses("/v2/role") :
                      calls' = IF resp.net = "err" THEN ReturnCall(g, "ErrTransport")
                               ELSE IF resp.status \notin 200..299
                               THEN ReturnCall(g, "BadHttpResponseCode")
                               ELSE IF ~resp.refresh THEN ReturnCall(g, "nil")
                               ELSE [calls EXCEPT ![g].pc = "Refresh", ![g].signal = TRUE]
    /\ UNCHANGED <<kind, token, expiry, transport, defaultHttpClient, client, now, retry,
                   last>>

\* c.Authentication.Refresh()
GoRefresh(g, c) ==
    /\ calls[g].pc = "Refresh"
    /\ \E r \in AuthRefresh(World, client[c].auth) :
        /\ Apply(r.w)
        /\ calls' = IF r.err # "nil" THEN ReturnCall(g, "ErrRefreshing")
                    ELSE [calls EXCEPT ![g].pc = "GetToken"]
    /\ UNCHANGED <<kind, defaultHttpClient, client, retry, last>>

\* tok, err := c.Authentication.GetToken(nil)
GoGetToken(g, c) ==
    /\ calls[g].pc = "GetToken"
    /\ \E t \in GetToken(World, client[c].auth, NilFile) :
        /\ Apply(t.w)
        /\ calls' = IF t.err # "nil" THEN ReturnCall(g, t.err)
                    ELSE [calls EXCEPT ![g].pc = "SetToken", ![g].tok = t.val]
    /\ UNCHANGED <<kind, defaultHttpClient, client, retry, last>>

\* c.vaultClient.SetToken(tok); return resp, nil
GoSetToken(g, c) ==
    /\ calls[g].pc = "SetToken"
    /\ client' = [client EXCEPT ![c].vaultToken = calls[g].tok]
    /\ calls' = ReturnCall(g, "nil")
    /\ UNCHANGED <<kind, token, expiry, headers, transport, defaultHttpClient, now, retry,
                   last>>

NoLast == [op |-> "none", s |-> 0, c |-> 0, arg |-> "", err |-> "nil", val |-> "",
           resp |-> NilResponse, received |-> NilResponse, log |-> <<>>]

\* the strategies of `built` are constructed, each of some kind; a TokenAuth
\* is given the token "t1" by its caller
InitWith(built) ==
    /\ kind \in {f \in [AllStrategies -> Kinds \cup {"none"}] :
                    \A s \in AllStrategies : (f[s] # "none") <=> (s \in built)}
    /\ token = [s \in AllStrategies |-> IF kind[s] = "token" THEN "t1" ELSE ""]
    /\ expiry = [s \in AllStrategies |-> ZeroTime]
    /\ headers = [s \in AllStrategies |-> NewHeaders(kind[s], token[s])]
    /\ transport = NoTransport
    /\ defaultHttpClient = FALSE
    /\ client = [c \in AllClients |-> NoClient]
    /\ now = 0
    /\ retry = NoRetry
    /\ calls = [g \in Goroutines |-> NoCall]
    /\ last = NoLast

\* every operation on the strategies of S and the client slots of C
NextOn(S, C) ==
    \/ Tick
    \/ \E s \in S : CallIsAuthenticated(s)
    \/ \E s \in S : CallGetToken(s)
    \/ \E s \in S : CallRefresh(s)
    \/ \E s \in S : CallLogout(s)
    \/ \E s \in S : CallGetHeaders(s)
    \/ \E s \in S : CallGetExpiry(s)
    \/ \E c \in C, s \in S \cap ClientStrategies : NewClient(c, s)
    \/ \E c \in C, s \in S \cap ClientStrategies, h \in CallerHeaders :
            NewClientWithHeaders(c, s, h)
    \/ \E c \in C : CallDoRequestWithBody(c)
    \/ \E c \in C : CallDoRequest(c)

\* one strategy and one client
Init == InitWith({1})

Next == NextOn({1}, {1})

Spec == Init /\ [][Next]_vars

\* a client is built and sends requests through the retrier, each send of
\* which returns
NextRetry ==
    \/ \E c \in {1}, s \in {1} \cap ClientStrategies : NewClient(c, s)
    \/ \E c \in {1} : ClientDo(c)
    \/ Attempt
    \/ Wait

\* a client is built and its safe deposit box accessors are called
NextSDB ==
    \/ \E c \in {1}, s \in {1} \cap ClientStrategies : NewClient(c, s)
    \/ \E c \in {1} : CallSDBGet(c)
    \/ \E c \in {1} : CallSDBGetByName(c)
    \/ \E c \in {1} : CallSDBCreate(c)
    \/ \E c \in {1} : CallSDBUpdate(c)
    \/ \E c \in {1} : CallSDBDelete(c)

\* two TokenAuth strategies and two clients in one process: clients are
\* built in any order and send requests
InitClients == InitWith({1, 2}) /\ \A s \in AllStrategies : kind[s] = "token"

NextClients ==
    \/ \E c \in AllClients, s \in ClientStrategies : NewClient(c, s)
    \/ \E c \in AllClients, s \in ClientStrategies, h \in CallerHeaders :
            NewClientWithHeaders(c, s, h)
    \/ \E c \in AllClients : CallDoRequest(c)

SpecClients == InitClients /\ [][NextClients]_vars

SpecSDB == Init /\ [][NextSDB]_vars

\* a client is built and two goroutines each call DoRequest on it once
NextGo ==
    \/ \E c \in {1}, s \in {1} \cap ClientStrategies : NewClient(c, s)
    \/ \E g \in Goroutines : GoDoRequest(g, 1)
    \/ \E g \in Goroutines : GoRefresh(g, 1)
    \/ \E g \in Goroutines : GoGetToken(g, 1)
    \/ \E g \in Goroutines : GoSetToken(g, 1)

SpecGo == Init /\ [][NextGo]_vars

SpecRetry == Init /\ [][NextRetry]_vars /\ WF_vars(Attempt) /\ WF_vars(Wait)

(***************************************************************************)
(* Properties.  A property of one call is stated on last, the record of    *)
(* the call that led to the state, or, where it compares the state before  *)
(* and after the call, as a property of every step.                        *)
(***************************************************************************)
Executor == last.op \in {"DoRequest", "DoRequestWithBody"}

Logged(ev, name) ==
    {i \in 1..Len(last.log) : last.log[i].ev = ev /\ last.log[i].name = name}

\* the token of the last success body a strategy exchange of the call received
Issued ==
    LET ok == {i \in 1..Len(last.log) :
                  /\ last.log[i].ev = "send"
                  /\ last.log[i].name # "request"
                  /\ last.log[i].resp.body = "ok"}
    IN  IF ok = {} THEN "" ELSE last.log[CHOOSE i \in ok : \A j \in ok : j <= i].resp.token

\* the strategy's fields
Fields(s) == <<token[s], expiry[s], headers[s]>>

\* C1: when DoRequestWithBody or DoRequest received a response carrying the
\* refresh signal and returns a nil error, it has called the strategy's
\* Refresh and afterwards the Vault client's SetToken, the Vault client holds
\* the strategy's current token, which is the token the service issued last,
\* and the caller gets the response that was received.
C1_RefreshUpdatesVault ==
    (Executor /\ last.received.refresh /\ last.err = "nil") =>
        /\ \E i \in Logged("call", "Refresh"), j \in Logged("call", "SetToken") : i < j
        /\ client[last.c].vaultToken = token[last.s]
        /\ client[last.c].vaultToken = Issued
        /\ last.resp = last.received
        /\ last.resp.net = "ok"

C1_Witness ==
    /\ Executor /\ last.received.refresh /\ last.err = "nil"
    /\ Logged("call", "SetToken") # {}
    /\ client[last.c].vaultToken = "t2"

\* C2: when the strategy's Refresh fails while DoRequestWithBody handles a
\* refresh signal, the call returns a non-nil error together with the
\* response it received, which is not nil and whose status is readable.
C2_RefreshFailureKeepsResponse ==
    (Executor /\ \E i \in Logged("return", "Refresh") : last.log[i].err # "nil") =>
        /\ last.err # "nil"
        /\ last.resp = last.received
        /\ last.resp # NilResponse
        /\ last.resp.status \in 200..299

C2_Witness ==
    /\ Executor
    /\ \E i \in Logged("return", "Refresh") : last.log[i].err = ErrorUnauthorized
    /\ last.resp.status = 200

\* C3, as claimed: on TokenAuth, UserAuth and STSAuth each of Refresh,
\* Logout, GetHeaders and GetExpiry, called while the strategy holds no
\* valid token, fails with api.ErrorUnauthenticated.
C3_Original ==
    [][\A s \in AllStrategies :
        (/\ last'.op \in {"Refresh", "Logout", "GetHeaders", "GetExpiry"}
         /\ last'.s = s
         /\ kind[s] \in {"token", "user", "sts"}
         /\ ~IsAuthenticated(World, s))
        => last'.err = ErrorUnauthenticated]_vars

\* C3, amended: on TokenAuth, UserAuth and STSAuth each of Refresh, Logout
\* and GetHeaders, called while the strategy holds no valid token, fails with
\* api.ErrorUnauthenticated, sends nothing and changes nothing.  GetExpiry
\* never returns that sentinel: it fails, with an error of its own, exactly
\* when the stored token is empty (always, on TokenAuth), and otherwise
\* returns the stored expiry with a nil error, also once the token has
\* expired.
C3_UnauthenticatedSentinel ==
    [][\A s \in AllStrategies :
        (last'.s = s /\ kind[s] \in {"token", "user", "sts"}) =>
            /\ (/\ last'.op \in {"Refresh", "Logout", "GetHeaders"}
                /\ ~IsAuthenticated(World, s))
               => /\ last'.err = ErrorUnauthenticated
                  /\ last'.log = <<>>
                  /\ UNCHANGED <<token, expiry, headers, transport, client>>
            /\ (last'.op = "GetExpiry") =>
                  IF kind[s] = "token" \/ token[s] = ""
                  THEN /\ last'.err \notin {"nil", ErrorUnauthenticated}
                       /\ last'.val = ZeroTime
                  ELSE /\ last'.err = "nil"
                       /\ last'.val = expiry[s]]_vars

C3_Witness ==
    /\ last.op \in {"Refresh", "Logout", "GetHeaders"}
    /\ kind[last.s] = "user"
    /\ token[last.s] # ""
    /\ now >= expiry[last.s]
    /\ last.err = ErrorUnauthenticated

\* C4: on every strategy, a GetToken or Refresh whose authentication or
\* refresh exchange the service answers with 401 or 403 fails with
\* api.ErrorUnauthorized.
C4_UnauthorizedSentinel ==
    (/\ last.op \in {"GetToken", "Refresh"}
     /\ last.log # <<>>
     /\ last.log[Len(last.log)].resp.status \in {401, 403})
    => last.err = ErrorUnauthorized

\* C5: on UserAuth, AWSAuth and STSAuth, IsAuthenticated returns true exactly
\* when the stored token is not empty and the clock is strictly before the
\* stored expiry.
C5_IsAuthenticated ==
    (last.op = "IsAuthenticated" /\ kind[last.s] \in {"user", "aws", "sts"}) =>
        (last.val <=> (token[last.s] # "" /\ now < expiry[last.s]))

C5_Witness ==
    /\ last.op = "IsAuthenticated"
    /\ kind[last.s] \in {"user", "aws", "sts"}
    /\ token[last.s] # ""
    /\ now = expiry[last.s]
    /\ last.val = FALSE

C7_GetTokenAuthenticated ==
    [][\A s \in AllStrategies :
        (last'.op = "GetToken" /\ last'.s = s) =>
            /\ IsAuthenticated(World, s)
               => /\ last'.err = "nil"
                  /\ last'.val = token[s]
                  /\ last'.log = <<>>
                  /\ UNCHANGED <<kind, token, expiry, headers, transport,
                                 defaultHttpClient, client, now>>
            /\ (last'.log # <<>>) => ~IsAuthenticated(World, s)]_vars

C7_Witness ==
    /\ last.op = "GetToken"
    /\ kind[last.s] = "user"
    /\ last.err = "nil"
    /\ last.log = <<>>
    /\ last.val = token[last.s]

\* C8: Logout on an authenticated strategy is all or nothing: answered with
\* 204 it empties the token, removes the token header and leaves the
\* strategy not authenticated; otherwise it returns an error and leaves
\* token, expiry and headers as they were.
C8_LogoutAllOrNothing ==
    [][\A s \in AllStrategies :
        (last'.op = "Logout" /\ last'.s = s /\ IsAuthenticated(World, s)) =>
            IF last'.log[1].resp.net = "ok" /\ last'.log[1].resp.status = 204
            THEN /\ last'.err = "nil"
                 /\ token'[s] = ""
                 /\ headers'[s][TokenHeader(kind[s])] = Absent
                 /\ ~IsAuthenticated(World, s)'
            ELSE /\ last'.err # "nil"
                 /\ Fields(s)' = Fields(s)]_vars

\* C9: Refresh on an authenticated UserAuth or TokenAuth, when it succeeds,
\* replaces the token and the token header by the token of the refresh
\* response (UserAuth sets its expiry from the response's lease duration);
\* when the request fails it returns an error and leaves token, expiry and
\* headers as they were.
C9_RefreshReplacesOrKeeps ==
    [][\A s \in AllStrategies :
        (/\ last'.op = "Refresh" /\ last'.s = s
         /\ kind[s] \in {"user", "token"}
         /\ IsAuthenticated(World, s)) =>
            IF last'.err = "nil"
            THEN /\ token'[s] = last'.log[1].resp.token
                 /\ headers'[s]["X-Cerberus-Token"] = last'.log[1].resp.token
                 /\ (kind[s] = "user")
                    => expiry'[s] = now + last'.log[1].resp.duration - expiryDelta
            ELSE Fields(s)' = Fields(s)]_vars

\* C10: Refresh on an authenticated STSAuth never calls the refresh
\* endpoint: once the request is signed it sends the one sts-identity
\* authentication request, and on success token, token header and expiry are
\* those of that authentication's response.
C10_STSRefreshReauthenticates ==
    (last.op = "Refresh" /\ kind[last.s] = "sts") =>
        /\ \A i \in 1..Len(last.log) : last.log[i].name # "refresh"
        /\ (last.err \notin {ErrorUnauthenticated, "ErrSign"})
           => /\ Len(last.log) = 1
              /\ last.log[1].ev = "send"
              /\ last.log[1].name = "sts-identity"
        /\ (last.err = "nil")
           => /\ last.log[1].resp.body = "ok"
              /\ token[last.s] = last.log[1].resp.token
              /\ headers[last.s]["X-Cerberus-Token"] = last.log[1].resp.token
              /\ expiry[last.s] = now + last.log[1].resp.duration - expiryDelta

C10_Witness ==
    /\ last.op = "Refresh"
    /\ kind[last.s] = "sts"
    /\ last.err = "nil"
    /\ token[last.s] = last.log[1].resp.token

\* the lease duration of the last success body a strategy exchange of the
\* call received
Lease ==
    LET ok == {i \in 1..Len(last.log) :
                  /\ last.log[i].ev = "send"
                  /\ last.log[i].name # "request"
                  /\ last.log[i].resp.body = "ok"}
    IN  IF ok = {} THEN 0 ELSE last.log[CHOOSE i \in ok : \A j \in ok : j <= i].resp.duration

\* C11: after a GetToken that authenticated or a Refresh that succeeded on a
\* UserAuth or STSAuth, the stored expiry is the clock plus the lease
\* duration of the service's response minus 60 seconds, which is not later
\* than the end of the lease.
C11_ExpiryArithmetic ==
    (/\ last.op \in {"GetToken", "Refresh"}
     /\ kind[last.s] \in {"user", "sts"}
     /\ last.err = "nil"
     /\ last.log # <<>>)
    => /\ expiry[last.s] = now + Lease - 60
       /\ expiry[last.s] = now + Lease - expiryDelta
       /\ expiry[last.s] <= now + Lease

C11_Witness ==
    /\ last.op = "Refresh"
    /\ kind[last.s] = "user"
    /\ last.err = "nil"
    /\ Lease = 120
    /\ expiry[last.s] = now + 60

(***************************************************************************)
(* C12: a UserAuth authentication sends the MFA check only directly after  *)
(* a first challenge whose response reports that MFA is required, and the  *)
(* check carries that response's state token, the ID of its first device   *)
(* and the trimmed first line of the given file (of standard input when no *)
(* file is given).  When MFA is required the token is stored only from a   *)
(* successful second response; when it is not, no MFA check is sent.       *)
(***************************************************************************)
Sends(log) == SelectSeq(log, LAMBDA e : e.ev = "send")

Succeeded(resp) == resp.net # "err" /\ CheckAndParse(resp) = "nil"

C12_MfaSecondRequest ==
    [][\A s \in AllStrategies :
        (/\ last'.op \in {"GetToken", "NewClient", "NewClientWithHeaders"}
         /\ last'.s = s
         /\ kind[s] = "user")
        => LET sends == Sends(last'.log)
               code  == IF last'.arg = NilFile THEN <<"4", " ", "2">> ELSE <<"1", "7">>
           IN  /\ \A i \in 1..Len(sends) :
                    sends[i].name = "mfa_check"
                    => /\ i > 1
                       /\ sends[i-1].name = "auth/user"
                       /\ Succeeded(sends[i-1].resp)
                       /\ sends[i-1].resp.body = "mfa"
                       /\ sends[i].body.state_token = sends[i-1].resp.stateToken
                       /\ sends[i].body.device_id = Head(sends[i-1].resp.devices)
                       /\ sends[i].body.otp_token = code
               /\ \A i \in 1..Len(sends) :
                    (sends[i].name = "auth/user" /\ Succeeded(sends[i].resp)
                        /\ sends[i].resp.body = "mfa")
                    => /\ i < Len(sends)
                       /\ sends[i+1].name = "mfa_check"
                       /\ IF Succeeded(sends[i+1].resp)
                          THEN token'[s] = sends[i+1].resp.token
                          ELSE token'[s] = token[s] /\ expiry'[s] = expiry[s]
               /\ \A i \in 1..Len(sends) :
                    (sends[i].name = "auth/user" /\ sends[i].resp.body # "mfa")
                    => \A j \in 1..Len(sends) : sends[j].name # "mfa_check"]_vars

C12_Witness ==
    /\ last.op = "GetToken"
    /\ last.arg = OtpFile
    /\ last.err = "nil"
    /\ \E i \in 1..Len(last.log) :
        /\ last.log[i].name = "mfa_check"
        /\ last.log[i].body = [device_id |-> "dev1", state_token |-> "st1",
                               otp_token |-> <<"1", "7">>]
        /\ last.s \in AllStrategies
        /\ token[last.s] = last.log[i].resp.token

(***************************************************************************)
(* C13: every DoRequestWithBody call terminates.  Failed sends are retried *)
(* after waits that start at 100 ms, double each time and never exceed     *)
(* 600 ms; a further send is scheduled only while no more than 600 ms have *)
(* elapsed, so there are at most four sends; what the call then returns is *)
(* the response and the error of the last send.                            *)
(***************************************************************************)
C13_Bounded ==
    /\ \A i \in 1..Len(retry.waits) :
        /\ retry.waits[i] = IF i = 1 THEN 100 ELSE 2 * retry.waits[i-1]
        /\ retry.waits[i] <= 600
    /\ retry.pc = "wait" => retry.elapsed <= 600
    /\ retry.pc = "wait" => retry.currentInterval <= 600
    /\ retry.attempts <= 4
    /\ retry.pc = "done"
        => LET final == retry.seen[Len(retry.seen)]
           IN  /\ Len(retry.seen) = retry.attempts
               /\ retry.resp = IF final.net = "err" THEN NilResponse ELSE final
               /\ (retry.err = "nil") <=> (final.net = "ok" /\ final.status \in 200..299)

C14_StatusClassification ==
    (/\ last.op \in {"SDB.Update", "SDB.Delete"}
     /\ last.received.net = "ok"
     /\ last.received.status \notin 200..299)
    => CASE last.received.status = 404 -> last.err = ErrorSafeDepositBoxNotFound
         [] last.received.status = 400 ->
                (last.received.body = "error" => last.err = ErrorResponse("e1"))
         [] OTHER -> last.err \notin {"nil", ErrorSafeDepositBoxNotFound,
                                      ErrorResponse("e1"), ErrorResponse("")}

(***************************************************************************)
(* C15: ParseAPIError, as SDB.Update hands its result on for a 400 answer, *)
(* returns utils.ErrorBodyNotReturned for an empty body and for JSON       *)
(* without an error_id, the decoded api.ErrorResponse for JSON with an     *)
(* error_id, and another error for a malformed body.                       *)
(***************************************************************************)
C15_ParseAPIError ==
    (/\ last.op = "SDB.Update"
     /\ last.received.net = "ok"
     /\ last.received.status = 400)
    => CASE last.received.body = "none"  -> last.err = "utils.ErrorBodyNotReturned"
         [] last.received.body = "ok"    -> last.err = "utils.ErrorBodyNotReturned"
         [] last.received.body = "error" -> last.err = "api.ErrorResponse e1"
         [] last.received.body = "bad"   ->
                last.err \notin {"nil", "utils.ErrorBodyNotReturned",
                                 "cerberus.ErrorBodyNotReturned",
                                 "api.ErrorResponse e1", "api.ErrorResponse"}

C15_Witness ==
    /\ last.op = "SDB.Update"
    /\ last.received.status = 400
    /\ last.received.body = "ok"
    /\ last.err = "utils.ErrorBodyNotReturned"

(***************************************************************************)
(* C20: SDB.Get, SDB.Update and SDB.Delete called with an empty ID return  *)
(* ErrorSafeDepositBoxNotFound and send no HTTP request.                   *)
(***************************************************************************)
C20_EmptyIDSendsNothing ==
    (last.op \in {"SDB.Get", "SDB.Update", "SDB.Delete"} /\ last.arg = <<>>)
    => /\ last.err = ErrorSafeDepositBoxNotFound
       /\ \A i \in 1..Len(last.log) : last.log[i].ev # "send"
       /\ last.received = NilResponse

C20_Witness ==
    /\ last.op = "SDB.Get"
    /\ last.arg = <<>>
    /\ last.err = ErrorSafeDepositBoxNotFound
    /\ last.log = <<>>

(***************************************************************************)
(* C16: NewClient and NewClientWithHeaders call the strategy's GetToken    *)
(* with the file they are given.  When it fails they return its error and  *)
(* no client; a client they return holds, as its Vault token, the token    *)
(* GetToken returned, and the strategy's URL as its base URL.              *)
(***************************************************************************)
C16_NewClientUsesGetToken ==
    [][\A s \in AllStrategies, c \in AllClients, f \in {NilFile, OtpFile} :
        (/\ last'.op \in {"NewClient", "NewClientWithHeaders"}
         /\ last'.s = s /\ last'.c = c /\ last'.arg = f)
        => \E x \in GetToken(World, s, f) :
            /\ last'.log = x.w.log
            /\ token' = x.w.token
            /\ IF x.err # "nil"
               THEN last'.err = x.err /\ ~client'[c].exists
               ELSE \/ /\ last'.err = "nil"
                       /\ client'[c].exists
                       /\ client'[c].auth = s
                       /\ client'[c].vaultToken = x.val
                       /\ client'[c].vaultToken = token'[s]
                       /\ client'[c].CerberusURL = GetURL(s)
                    \/ last'.err = "ErrVaultClient" /\ ~client'[c].exists]_vars

C16_Witness ==
    /\ last.op = "NewClientWithHeaders"
    /\ last.err = "nil"
    /\ client[1].exists
    /\ client[1].vaultToken = "t2"
    /\ token[client[1].auth] = "t2"
    /\ client[1].CerberusURL = "https://one.example.com"

(***************************************************************************)
(* C17: every request a client sends carries X-Cerberus-Client: the value  *)
(* in the default headers its constructor was given, and the library's     *)
(* default when it was given none (NewClient) or none with that name.      *)
(***************************************************************************)
ExpectedClientHeader(c) ==
    IF Get(client[c].given, "X-Cerberus-Client") # ""
    THEN Get(client[c].given, "X-Cerberus-Client")
    ELSE ClientHeader

C17_ClientHeaderPerClient ==
    last.op \in {"DoRequest", "DoRequestWithBody"}
    => \A i \in 1..Len(last.log) :
        (last.log[i].ev = "send" /\ last.log[i].name = "request")
        => Get(last.log[i].hdr, "X-Cerberus-Client") = ExpectedClientHeader(last.c)

C19_ErrorMeansEmptyToken ==
    (/\ last.op = "GetToken"
     /\ kind[last.s] \in {"user", "sts"}
     /\ last.err # "nil")
    => last.val = ""

(***************************************************************************)
(* C21: a DoRequestWithBody (or DoRequest) call invokes the strategy's     *)
(* Refresh at most once, only after it has received a response and only    *)
(* if that response carries the refresh signal; when the response carries  *)
(* no signal, or none was received, Refresh is not called and the          *)
(* strategy's token and the Vault client's token stay as they were.        *)
(***************************************************************************)
C21_RefreshOnlyOnSignal ==
    [][\A c \in AllClients, s \in AllStrategies :
        (last'.op \in {"DoRequest", "DoRequestWithBody"} /\ last'.c = c /\ last'.s = s)
        => LET log   == last'.log
               refreshes == {i \in 1..Len(log) : log[i].ev = "call" /\ log[i].name = "Refresh"}
           IN  /\ Cardinality(refreshes) <= 1
               /\ \A i \in refreshes :
                    /\ last'.received.net = "ok"
                    /\ last'.received.refresh
                    /\ \E j \in 1..(i-1) :
                        /\ log[j].ev = "send" /\ log[j].name = "request"
                        /\ log[j].resp = last'.received
               /\ ~last'.received.refresh
                  => /\ refreshes = {}
                     /\ token'[s] = token[s]
                     /\ expiry'[s] = expiry[s]
                     /\ client'[c].vaultToken = client[c].vaultToken]_vars

C21_Witness ==
    /\ last.op = "DoRequest"
    /\ last.received.refresh
    /\ Cardinality(Logged("call", "Refresh")) = 1
    /\ Logged("send", "request") # {}
    /\ last.err = "nil"

(***************************************************************************)
(* C22: when SDB.Create, SDB.Update or SDB.Delete receives a non-success   *)
(* answer (other than a 404) whose body holds no error details, it returns *)
(* the wrapped error that names the status code, never the bare "no error  *)
(* body" sentinel ParseAPIError yields for such a body.                    *)
(***************************************************************************)
C22_NoBodyIsWrapped ==
    (/\ last.op \in {"SDB.Create", "SDB.Update", "SDB.Delete"}
     /\ last.received.net = "ok"
     /\ last.received.status \notin 200..299
     /\ last.received.status # 404
     /\ last.received.body \in {"none", "ok"})
    => /\ last.err \notin {"utils.ErrorBodyNotReturned", "cerberus.ErrorBodyNotReturned"}
       /\ last.err = "ErrWrapped"

(***************************************************************************)
(* C23: SDB.GetByName with an empty name returns                           *)
(* ErrorSafeDepositBoxNotFound and sends nothing; with a name it sends at  *)
(* most one request, the List request.  When List succeeds it returns the  *)
(* first box of the answer, in the service's order, whose Name is exactly  *)
(* the name, and ErrorSafeDepositBoxNotFound when there is none; when List *)
(* fails it returns List's error.                                          *)
(***************************************************************************)
C23_GetByNameFirstMatch ==
    last.op = "SDB.GetByName"
    => LET r     == last.received
           sends == {i \in 1..Len(last.log) : last.log[i].ev = "send"}
           found == {i \in 1..Len(r.boxes) : r.boxes[i].Name = last.arg}
       IN  IF last.arg = ""
           THEN last.err = ErrorSafeDepositBoxNotFound /\ sends = {}
           ELSE /\ Cardinality(sends) <= 1
                /\ \A i \in sends : last.log[i].name = "request"
                /\ IF r.net = "ok" /\ r.status = 200 /\ r.body = "list"
                   THEN IF found = {}
                        THEN last.err = ErrorSafeDepositBoxNotFound /\ last.val = ""
                        ELSE /\ last.err = "nil"
                             /\ \E i \in found :
                                 /\ \A j \in found : i <= j
                                 /\ last.val = r.boxes[i].ID
                   ELSE /\ last.val = ""
                        /\ last.err = IF r.net = "ok" /\ r.status = 200
                                      THEN "ErrDecode" ELSE "ErrWrapped"

C23_Witness ==
    /\ last.op = "SDB.GetByName"
    /\ last.arg = "a"
    /\ last.err = "nil"
    /\ Len(last.received.boxes) = 3
    /\ last.val = "2"

(***************************************************************************)
(* C24: the request executor sends nothing without a valid token.  Called  *)
(* on a strategy that is not authenticated (its token empty or expired) it *)
(* returns api.ErrorUnauthenticated, sends no request and calls neither    *)
(* Refresh nor GetToken, leaving token and expiry as they were; every      *)
(* request it does send carries, under the strategy's token header, the    *)
(* token the strategy stored.                                              *)
(***************************************************************************)
C24_NoSendWithoutToken ==
    [][\A s \in AllStrategies :
        (last'.op \in {"DoRequest", "DoRequestWithBody"} /\ last'.s = s
         /\ last'.err # "ErrNewRequest" /\ last'.err # "ErrEncode")
        => LET log   == last'.log
               sends == {i \in 1..Len(log) : log[i].ev = "send"}
           IN  /\ ~IsAuthenticated(World, s)
                  => /\ last'.err = ErrorUnauthenticated
                     /\ sends = {}
                     /\ \A i \in 1..Len(log) : log[i].name = "GetHeaders"
                     /\ token'[s] = token[s]
                     /\ expiry'[s] = expiry[s]
               /\ \A i \in sends :
                     log[i].name = "request"
                     => /\ token[s] # ""
                        /\ Get(log[i].hdr, TokenHeader(kind[s])) = token[s]]_vars

(***************************************************************************)
(* C25: two clients over two different strategies do not interfere.  An    *)
(* operation of client b or on its strategy (NewClient,                    *)
(* NewClientWithHeaders, DoRequest with the Refresh it may run) leaves the *)
(* token, the expiry and the header set of the strategy of another client  *)
(* a as they were, and leaves unchanged the headers the next request of a  *)
(* goes out with; every request of a carries the token of a's strategy.    *)
(***************************************************************************)
Carries(H, tr, s) == RoundTrip(tr, H, H[s])

C25_ClientsIsolated ==
    [][\A a, b \in AllClients :
        (/\ a # b
         /\ client[a].exists
         /\ client[a].auth # last'.s
         /\ last'.c = b
         /\ last'.op \in {"NewClient", "NewClientWithHeaders", "DoRequest"})
        => LET s == client[a].auth
           IN  /\ token'[s] = token[s]
               /\ expiry'[s] = expiry[s]
               /\ headers'[s] = headers[s]
               /\ Carries(headers', transport', s) = Carries(headers, transport, s)
               /\ \A i \in 1..Len(last'.log) :
                     (last'.log[i].ev = "send" /\ last'.log[i].name = "request")
                     => Get(last'.log[i].hdr, TokenHeader(kind[last'.s])) = token[last'.s]]_vars

(***************************************************************************)
(* C26: the request executor does not modify the strategy's header set.    *)
(* After a DoRequestWithBody or DoRequest that ran no Refresh, whatever    *)
(* the content type, the strategy's headers are those it held before the   *)
(* call; after a multipart upload the set holds no multipart Content-Type. *)
(***************************************************************************)
C26_HeadersUntouched ==
    [][\A s \in AllStrategies :
        (/\ last'.op \in {"DoRequest", "DoRequestWithBody"}
         /\ last'.s = s
         /\ \A i \in 1..Len(last'.log) : last'.log[i].name # "Refresh")
        => /\ headers'[s] = headers[s]
           /\ \A ct \in ContentTypes :
                 Get(headers[s], "Content-Type") # ct
                 => Get(headers'[s], "Content-Type") # ct]_vars

(***************************************************************************)
(* C27: in every reachable state the token header in the header set of a   *)
(* TokenAuth, UserAuth or STSAuth is the stored token when that is not     *)
(* empty, and is absent when it is empty.                                  *)
(***************************************************************************)
C27_TokenHeaderIsToken ==
    \A s \in AllStrategies :
        kind[s] \in {"token", "user", "sts"}
        => Get(headers[s], "X-Cerberus-Token") = token[s]

(***************************************************************************)
(* C28: when GetToken, and so NewClient or NewClientWithHeaders, returns   *)
(* a nil error, the strategy is authenticated right afterwards:            *)
(* IsAuthenticated is true and GetHeaders succeeds, whatever token and     *)
(* lease duration the service answered with.                               *)
(***************************************************************************)
C28_GetTokenMeansAuthenticated ==
    (last.op \in {"GetToken", "NewClient", "NewClientWithHeaders"} /\ last.err = "nil")
    => /\ IsAuthenticated(World, last.s)
       /\ \A g \in GetHeaders(World, last.s) : g.err = "nil"

(***************************************************************************)
(* C30: the request executor returns a nil response only when no HTTP      *)
(* response was received; a response the exchange produced is returned,    *)
(* with or without an error.                                               *)
(***************************************************************************)
C30_ResponseIsReturned ==
    last.op \in {"DoRequest", "DoRequestWithBody"}
    => /\ last.resp = NilResponse => last.received.net # "ok"
       /\ last.received.net = "ok" => last.resp = last.received

(***************************************************************************)
(* C29: two DoRequest calls run at the same time on one client and both    *)
(* receive the refresh signal.  Once both have returned without an error   *)
(* the Vault client's token is the strategy's current token, however       *)
(* their Refresh, GetToken and SetToken steps interleave.                  *)
(***************************************************************************)
C29_VaultTokenAfterRace ==
    (\A g \in Goroutines :
        calls[g].pc = "returned" /\ calls[g].signal /\ calls[g].err = "nil")
    => client[1].vaultToken = token[client[1].auth]

====
